---- MODULE Spec2Model ----
(***************************************************************************)
(* Model of the emissions-aware charging controller (sgip-ev-charging):    *)
(* the interval algebra (intervals.rs), the goal model and the decision    *)
(* function Charging::can_charge (controller.rs), and the histograms it    *)
(* builds (history.rs, forecast_ext.rs).                                   *)
(*                                                                         *)
(* Time is counted in whole hours since an arbitrary UTC midnight.  A      *)
(* state of charge and a goal's charge are counted in hundredths (the      *)
(* live loop's battery_level / 100).  An emissions rate (kg/kWh, a float   *)
(* in the code) is counted in RateUnitsPerGram-ths of a gram, so that the  *)
(* (rate * 1000.) as u64 conversion truncates.  Float rounding is not      *)
(* modelled: a required charging proportion is the exact quotient         *)
(* num/den, with the IEEE results of a division by zero kept apart.        *)
(***************************************************************************)
EXTENDS Integers, Sequences, FiniteSets, Bags, TLC

VARIABLES
    policy,      \* &self: the config::Charging the call is made on
    now,         \* can_charge argument
    soc,         \* can_charge argument (hundredths)
    history,     \* can_charge argument: History.data, start -> rate
    current,     \* can_charge argument: current.rate
    forecast,    \* can_charge argument: forecast.moers(), a sequence
    pc,          \* position inside can_charge
    goals,       \* the filtered, sorted candidate list (controller.rs:86-99)
    goal,        \* the selected goal (controller.rs:101)
    required,    \* required_charging_proportion (controller.rs:105)
    lookahead,   \* controller.rs:107
    lookback,    \* controller.rs:115
    emissions,   \* the working histogram (controller.rs:125-132)
    result,      \* the returned (bool, i64)
    range,       \* allowed_times_during argument
    it,          \* the DateIterator/flat_map position of the lazy sequence
    ipc,         \* position of the consumer of allowed_times_during
    out,         \* the intervals collected so far
    val,         \* a call of Charging::validate: its position and result
    loop,        \* the live control loop (controller.rs start): its locals
    sim,         \* a backtest run (simulator.rs): its locals and records
    zone,        \* the daylight-saving transition of the local calendar
    waker        \* a Vehicle::wake call (tesla/vehicle.rs): its progress

vars == <<policy, now, soc, history, current, forecast, pc, goals, goal,
          required, lookahead, lookback, emissions, result, range, it, ipc, out,
          val, loop, sim, zone, waker>>

decideVars == <<now, soc, history, current, forecast, pc, goals, goal,
                required, lookahead, lookback, emissions, result>>

intervalVars == <<range, it, ipc, out>>

auxVars == <<val, loop, sim, zone, waker>>

-----------------------------------------------------------------------------
(* Units and program constants *)

\* chrono: one calendar day / Duration::days(1), in hours
HoursPerDay == 24

\* chrono_tz::US::Pacific standard time: local = UTC - 8 h
PacificOffset == -8

\* config.rs:64: flex_charge_hours must be in 0..(7 * 24)
FlexLimit == 7 * HoursPerDay

\* soc and charge fractions are hundredths: 1.0 is 100
ChargeScale == 100

\* an emissions rate of r units is r / RateUnitsPerGram grams per kWh
RateUnitsPerGram == 2

\* can_charge's limit when it returns early (controller.rs:52, 57)
Sentinel == -1

-----------------------------------------------------------------------------
(* Bounds of the model *)

\* the calls are made at FirstNow, FirstNow + 1, ..., FirstNow + NowSpan
\* (FirstNow is 22:00 Pacific, so a span of a day crosses local midnight,
\* UTC midnight and every window of the policies below)
FirstNow == 30

NowSpan == 25

\* ranges given to allowed_times_during are at most this long (hours)
MaxRangeLen == 40

\* a forecast holds at most this many samples
MaxForecast == 1

\* a history holds at most this many samples
MaxHistory == 1

-----------------------------------------------------------------------------
(* Local time (chrono, chrono_tz) *)

\* DateTime<Utc>::with_timezone(&Pacific).date(), as a day number
LocalDate(t) == (t + PacificOffset) \div HoursPerDay

\* DateTime<Utc>::with_timezone(&Pacific).time(), as an hour of the day
LocalTime(t) == (t + PacificOffset) % HoursPerDay

\* date.and_time(time).unwrap().with_timezone(&Utc)
AndTime(date, time) == date * HoursPerDay + time - PacificOffset

\* Date::succ_opt (the calendar's last day is never reached)
Succ(date) == date + 1

-----------------------------------------------------------------------------
(* Policies (config.rs) *)

\* Charging::validate: TRUE when it returns Ok(self)
Validate(P) ==
    /\ 0 <= P.max_charge /\ P.max_charge < ChargeScale
    /\ 0 <= P.flex_charge_hours /\ P.flex_charge_hours < FlexLimit
    /\ \A i \in DOMAIN P.daily_goals :
          0 <= P.daily_goals[i][2] /\ P.daily_goals[i][2] < ChargeScale
    /\ Len(P.allowed_times) > 0
    /\ \A i \in DOMAIN P.allowed_times :
          ~(P.allowed_times[i][1] >= P.allowed_times[i][2])
    /\ \A i \in 1..(Len(P.allowed_times) - 1) :
          ~(P.allowed_times[i][2] >= P.allowed_times[i + 1][1])

\* Charging::default
DefaultCharging ==
    [allowed_times |-> << <<0, 15>> >>,
     charge_rate_kw |-> 8,
     capacity_kwh |-> 75,
     max_charge |-> 85,
     flex_charge_hours |-> 24,
     daily_goals |-> << <<8, 33>>, <<15, 66>> >>]

\* the configurations the calls are made with: the default, and the default
\* with two allowed windows a day, with no daily goals, and with a flex
\* horizon of 0 h or 40 h
AllowedTimesChoices == { << <<0, 15>> >>, << <<2, 5>>, <<20, 23>> >> }

DailyGoalsChoices == { <<>>, << <<8, 33>>, <<15, 66>> >> }

FlexChoices == {0, 24, 40}

Policies ==
    { P \in [allowed_times : AllowedTimesChoices,
             charge_rate_kw : {DefaultCharging.charge_rate_kw},
             capacity_kwh : {DefaultCharging.capacity_kwh},
             max_charge : {DefaultCharging.max_charge},
             flex_charge_hours : FlexChoices,
             daily_goals : DailyGoalsChoices] : Validate(P) }

\* Charging::allowed_at: some allowed-times pair contains the local time of
\* day of t, a pair being half-open
AllowedAt(P, t) ==
    \E i \in DOMAIN P.allowed_times :
        /\ P.allowed_times[i][1] <= LocalTime(t)
        /\ LocalTime(t) < P.allowed_times[i][2]

-----------------------------------------------------------------------------
(* Interval algebra (intervals.rs) *)

\* Option<T>
None == <<>>

Some(x) == <<x>>

Max(a, b) == IF a >= b THEN a ELSE b

Min(a, b) == IF a <= b THEN a ELSE b

\* std::ops::Range { start, end }
Interval(s, e) == [start |-> s, end |-> e]

\* Range::contains
Contains(r, t) == r.start <= t /\ t < r.end

\* a slip in intervals.rs:20: the window returned whole, not cut to the range
IntersectUncut(a, b) ==
    IF b.start > a.end \/ a.start > b.end THEN None ELSE Some(a)

\* RangeExt::intersect, with a = self and b = other
Intersect(a, b) ==
    IF b.start > a.end \/ a.start > b.end
    THEN None
    ELSE Some(Interval(Max(a.start, b.start), Min(a.end, b.end)))

\* DateIterator::next on self.0 = date: the date stored and returned
DateIteratorNext(date) == Succ(date)

\* the closure charging_times_for_day, its idx-th interval for date
ChargingTime(P, date, idx) ==
    Interval(AndTime(date, P.allowed_times[idx][1]),
             AndTime(date, P.allowed_times[idx][2]))

\* DateIterator(start_date).flat_map(charging_times_for_day) before its
\* first next(): no day's intervals are open yet
IterStart(r) == [date |-> LocalDate(r.start), front |-> FALSE, idx |-> 0]

\* FlatMap::next: the state after the next interval is taken, which is
\* ChargingTime(P, s.date, s.idx) of that state: the open day's next
\* interval, or the first one of the date DateIterator::next returns
FlatMapNext(P, s) ==
    IF s.front /\ s.idx < Len(P.allowed_times)
    THEN [date |-> s.date, front |-> TRUE, idx |-> s.idx + 1]
    ELSE [date |-> DateIteratorNext(s.date), front |-> TRUE, idx |-> 1]

\* map_while's closure on the interval FlatMapNext yields
MapWhileItem(P, r, s) == Intersect(ChargingTime(P, s.date, s.idx), r)

RECURSIVE CollectFrom(_, _, _)
\* the rest of the lazy sequence from flat_map state s, collected
CollectFrom(P, r, s) ==
    LET s2 == FlatMapNext(P, s)
        x == MapWhileItem(P, r, s2)
    IN  IF x = None THEN <<>> ELSE <<x[1]>> \o CollectFrom(P, r, s2)

\* Charging::allowed_times_during(range), collected
AllowedTimesDuring(P, r) == CollectFrom(P, r, IterStart(r))

RECURSIVE SumLengths(_)
\* .map(|range| (range.end - range.start).num_hours_f64()).sum()
SumLengths(seq) ==
    IF seq = <<>> THEN 0
    ELSE (Head(seq).end - Head(seq).start) + SumLengths(Tail(seq))

-----------------------------------------------------------------------------
(* A caller of allowed_times_during that pulls the sequence to its end *)

Unused == "unused"

Nows == FirstNow..(FirstNow + NowSpan)

InitIntervals ==
    /\ policy \in Policies
    /\ \E a \in Nows : \E len \in 0..MaxRangeLen : range = Interval(a, a + len)
    /\ it = IterStart(range)
    /\ ipc = "iterating"
    /\ out = <<>>
    /\ now = Unused /\ soc = Unused /\ history = Unused /\ current = Unused
    /\ forecast = Unused /\ pc = Unused /\ goals = Unused /\ goal = Unused
    /\ required = Unused /\ lookahead = Unused /\ lookback = Unused
    /\ emissions = Unused /\ result = Unused
    /\ val = Unused /\ loop = Unused /\ sim = Unused /\ zone = Unused
    /\ waker = Unused

\* Iterator::next returns Some(interval)
IterNext ==
    /\ ipc = "iterating"
    /\ LET s2 == FlatMapNext(policy, it)
           x == MapWhileItem(policy, range, s2)
       IN  /\ x # None
           /\ it' = s2
           /\ out' = Append(out, x[1])
    /\ UNCHANGED <<policy, range, ipc>>
    /\ UNCHANGED decideVars
    /\ UNCHANGED auxVars

\* Iterator::next returns None: map_while ends the sequence
IterEnd ==
    /\ ipc = "iterating"
    /\ LET s2 == FlatMapNext(policy, it)
       IN  MapWhileItem(policy, range, s2) = None
    /\ ipc' = "finished"
    /\ UNCHANGED <<policy, range, it, out>>
    /\ UNCHANGED decideVars
    /\ UNCHANGED auxVars

NextIntervals == IterNext \/ IterEnd

SpecIntervals == InitIntervals /\ [][NextIntervals]_vars

\* the collected operator and the pulled sequence are the same sequence
CollectAgrees == ipc = "finished" => out = AllowedTimesDuring(policy, range)

\* Claim C9: the intervals allowed_times_during([a, b)) emits are in strictly
\* increasing chronological order, pairwise disjoint, and each lies in
\* [a, b): a <= start and end <= b.
C9_OrderedDisjointContained ==
    \A i \in DOMAIN out :
        /\ range.start <= out[i].start
        /\ out[i].end <= range.end
        /\ \A j \in DOMAIN out :
              i < j => /\ out[i].start < out[j].start
                       /\ out[i].end <= out[j].start

\* the sequence is complete, holds two intervals of different days' windows
\* and its last interval was cut at the end of the range
C9_Witness ==
    /\ ipc = "finished"
    /\ Len(out) >= 2
    /\ out[Len(out)].end = range.end
    /\ out[Len(out)].end < ChargingTime(policy, it.date, it.idx).end

\* the local hours of [a, b) that lie in a recurrence of an allowed window on
\* a local date >= local-date(a)
RecurrenceHours(P, r) ==
    { t \in r.start..(r.end - 1) :
        \E date \in LocalDate(r.start)..LocalDate(r.end) :
            \E i \in DOMAIN P.allowed_times :
                Contains(ChargingTime(P, date, i), t) }

\* the hours the intervals of a sequence cover
CoveredHours(seq) ==
    { t \in FirstNow..(FirstNow + NowSpan + MaxRangeLen + FlexLimit) :
        \E i \in DOMAIN seq : Contains(seq[i], t) }

\* Claim C7: allowed_at(t) holds if and only if some interval returned by
\* allowed_times_during([t, t + 1)) contains t (the unit of time standing for
\* the claim's second).
C7_AllowedIffCovered ==
    (ipc = "finished" /\ range.end = range.start + 1)
        => (AllowedAt(policy, range.start)
               <=> \E i \in DOMAIN out : Contains(out[i], range.start))

\* Claim C8: the union of the intervals allowed_times_during([a, b)) emits is
\* the intersection of [a, b) with the recurrences of the allowed windows on
\* local dates >= local-date(a), and their lengths sum to that allowed time.
C8_UnionIsRecurrence ==
    ipc = "finished"
        => /\ CoveredHours(out) = RecurrenceHours(policy, range)
           /\ SumLengths(out) = Cardinality(RecurrenceHours(policy, range))

-----------------------------------------------------------------------------
(* Required charging proportions: f64 quotients (controller.rs:32-36) *)

\* the f64 num / den for den >= 0: finite when den > 0, and for den = 0
\* +infinity (num > 0), -infinity (num < 0) or NaN (num = 0)
Quot(num, den) == [num |-> num, den |-> den]

IsNaN(f) == f.den = 0 /\ f.num = 0

IsPosInf(f) == f.den = 0 /\ f.num > 0

IsNegInf(f) == f.den = 0 /\ f.num < 0

IsFinite(f) == f.den > 0

\* f64 `<`: false when either side is NaN
FLess(a, b) ==
    /\ ~IsNaN(a) /\ ~IsNaN(b)
    /\ \/ IsNegInf(a) /\ ~IsNegInf(b)
       \/ IsFinite(a) /\ IsPosInf(b)
       \/ IsFinite(a) /\ IsFinite(b) /\ a.num * b.den < b.num * a.den

\* f64 `>=`: false when either side is NaN
FGreaterEq(a, b) == ~IsNaN(a) /\ ~IsNaN(b) /\ ~FLess(a, b)

\* f64::partial_cmp
PartialCmp(a, b) ==
    IF IsNaN(a) \/ IsNaN(b) THEN None
    ELSE IF FLess(a, b) THEN Some("Less")
    ELSE IF FLess(b, a) THEN Some("Greater")
    ELSE Some("Equal")

-----------------------------------------------------------------------------
(* Goals (controller.rs:9-37) *)

\* struct Goal { time, charge, config }: config is the policy of the call
Goal(time, charge) == [time |-> time, charge |-> charge]

\* Goal::available_charging_hours: the emitted lengths, in hours, summed
AvailableChargingHours(P, g, t) ==
    SumLengths(AllowedTimesDuring(P, Interval(t, g.time)))

\* Goal::required_charging_proportion:
\* ((charge - soc) * capacity_kwh / charge_rate_kw) / available hours
RequiredChargingProportion(P, g, t, present_soc) ==
    Quot((g.charge - present_soc) * P.capacity_kwh,
         ChargeScale * P.charge_rate_kw * AvailableChargingHours(P, g, t))

\* today_goals / tomorrow_goals of controller.rs:65-74 for a date
DailyGoalsOn(P, date) ==
    [i \in DOMAIN P.daily_goals |->
        Goal(AndTime(date, P.daily_goals[i][1]), P.daily_goals[i][2])]

\* flex_goal of controller.rs:78-84
FlexGoal(P, t) == Goal(t + P.flex_charge_hours, ChargeScale)

\* once(flex_goal).chain(today_goals).chain(tomorrow_goals)
CandidateGoals(P, t) ==
    <<FlexGoal(P, t)>> \o DailyGoalsOn(P, LocalDate(t))
                       \o DailyGoalsOn(P, Succ(LocalDate(t)))

\* .filter(|goal| goal.time > now)
IsActive(g, t) == g.time > t

\* .filter(|goal| goal.charge > soc)
IsUnmet(g, present_soc) == g.charge > present_soc

\* the collected Vec<Goal> of controller.rs:86-91
FilteredGoals(P, t, present_soc) ==
    LET Keep(g) == IsActive(g, t) /\ IsUnmet(g, present_soc)
    IN  SelectSeq(CandidateGoals(P, t), Keep)

\* a slip: an insertion that passes the elements equal to x, which makes the
\* sort put equal elements in reverse order
RECURSIVE InsertHeadAfterEquals(_, _, _, _, _)
InsertHeadAfterEquals(P, t, present_soc, x, sorted) ==
    IF sorted = <<>> THEN <<x>>
    ELSE IF PartialCmp(RequiredChargingProportion(P, Head(sorted), t, present_soc),
                       RequiredChargingProportion(P, x, t, present_soc))
              \in {Some("Less"), Some("Equal")}
         THEN <<Head(sorted)>>
                \o InsertHeadAfterEquals(P, t, present_soc, x, Tail(sorted))
         ELSE <<x>> \o sorted

\* slice::sort_by's is_less(a, b): compare(a, b) == Less
\* (short slices are insertion-sorted: stable)
RECURSIVE InsertHead(_, _, _, _, _)
InsertHead(P, t, present_soc, x, sorted) ==
    IF sorted = <<>> THEN <<x>>
    ELSE IF PartialCmp(RequiredChargingProportion(P, Head(sorted), t, present_soc),
                       RequiredChargingProportion(P, x, t, present_soc)) = Some("Less")
         THEN <<Head(sorted)>> \o InsertHead(P, t, present_soc, x, Tail(sorted))
         ELSE <<x>> \o sorted

RECURSIVE SortByRequired(_, _, _, _)
\* goals.sort_by(..) of controller.rs:94-99 when no comparison panics
SortByRequired(P, t, present_soc, gs) ==
    IF Len(gs) <= 1 THEN gs
    ELSE InsertHead(P, t, present_soc, Head(gs),
                    SortByRequired(P, t, present_soc, Tail(gs)))

\* partial_cmp(..).unwrap() panics: a sort of two or more goals compares
\* every one of them at least once
SortPanics(P, t, present_soc, gs) ==
    /\ Len(gs) >= 2
    /\ \E i \in DOMAIN gs :
          IsNaN(RequiredChargingProportion(P, gs[i], t, present_soc))

-----------------------------------------------------------------------------
(* Histograms (hdrhistogram::Histogram<u64>, history.rs, forecast_ext.rs) *)

\* (rate * 1000.) as u64: truncation toward zero, negatives saturate to 0
ToGrams(rate) == IF rate < 0 THEN 0 ELSE rate \div RateUnitsPerGram

\* Histogram::new(3): no sample
EmptyHistogram == EmptyBag

\* Histogram::record / += u64
Record(h, v) == h (+) SetToBag({v})

\* Moer { start, rate, .. }
Moer(start, rate) == [start |-> start, rate |-> rate]

InAny(intervals, t) == \E i \in DOMAIN intervals : Contains(intervals[i], t)

RECURSIVE RecordAll(_, _, _)
\* the loop of ForecastExt::histogram_over over self.moers()
RecordAll(h, moers, intervals) ==
    IF moers = <<>> THEN h
    ELSE RecordAll(IF InAny(intervals, Head(moers).start)
                   THEN Record(h, ToGrams(Head(moers).rate))
                   ELSE h,
                   Tail(moers), intervals)

\* ForecastExt::histogram_over
ForecastHistogramOver(fc, intervals) == RecordAll(EmptyHistogram, fc, intervals)

RECURSIVE RecordMap(_, _, _, _)
\* the loop of History::histogram_over over self.data (a BTreeMap)
RecordMap(h, data, starts, intervals) ==
    IF starts = {} THEN h
    ELSE LET start == CHOOSE x \in starts : \A y \in starts : x <= y
         IN  RecordMap(IF InAny(intervals, start)
                       THEN Record(h, ToGrams(data[start]))
                       ELSE h,
                       data, starts \ {start}, intervals)

\* History::histogram_over
HistoryHistogramOver(data, intervals) ==
    RecordMap(EmptyHistogram, data, DOMAIN data, intervals)

\* Histogram::len(): total count
TotalCount(h) == BagCardinality(h)

\* the count of the samples <= v
CountUpTo(h, v) ==
    BagCardinality([x \in {y \in BagToSet(h) : y <= v} |-> h[x]])

\* a slip in the quantile's count: the product truncated, not rounded up
CountAtQuantileFloor(q, total) ==
    IF IsNaN(q) \/ IsNegInf(q) \/ q.num <= 0 THEN 0
    ELSE IF IsPosInf(q) \/ q.num >= q.den THEN total
    ELSE (q.num * total) \div q.den

\* ceil of the f64 quantile * total_count, as u64, for a quantile already
\* capped at 1.0 (NaN and negative products cast to 0)
CountAtQuantile(q, total) ==
    IF IsNaN(q) \/ IsNegInf(q) \/ q.num <= 0 THEN 0
    ELSE IF IsPosInf(q) \/ q.num >= q.den THEN total
    ELSE (q.num * total + q.den - 1) \div q.den

\* Histogram::value_at_quantile: the first bucket at which the running
\* count reaches max(1, ceil(min(q, 1.0) * total)); 0 for no sample
ValueAtQuantile(h, q) ==
    LET wanted == Max(1, CountAtQuantile(q, TotalCount(h)))
        reached == { v \in BagToSet(h) : CountUpTo(h, v) >= wanted }
    IN  IF reached = {} THEN 0
        ELSE CHOOSE v \in reached : \A w \in reached : v <= w

\* a slip in controller.rs:115: only the shift of one day
LookbackOneDay(ahead) ==
    [i \in 1..Len(ahead) |->
        Interval(ahead[i].start - HoursPerDay, ahead[i].end - HoursPerDay)]

\* the lookback of controller.rs:115-122
Lookback(ahead) ==
    [i \in 1..(2 * Len(ahead)) |->
        LET k == IF i <= Len(ahead) THEN i ELSE i - Len(ahead)
            offset == IF i <= Len(ahead) THEN HoursPerDay ELSE 2 * HoursPerDay
        IN  Interval(ahead[k].start - offset, ahead[k].end - offset)]

-----------------------------------------------------------------------------
(* Charging::can_charge (controller.rs:42-168) *)

\* a slip in controller.rs:51: the negation dropped
OutsideAllowedTimesInverted(P, t) == AllowedAt(P, t)

\* the condition of controller.rs:51
OutsideAllowedTimes(P, t) == ~AllowedAt(P, t)

\* a slip in controller.rs:56: > for >=
AboveMaxChargeStrict(P, present_soc) == present_soc > P.max_charge

\* the condition of controller.rs:56
AboveMaxCharge(P, present_soc) == present_soc >= P.max_charge

\* a slip in controller.rs:131-132: the current rate is not recorded
WorkingHistogramWithoutCurrent(data, fc, rate, ahead, back) ==
    HistoryHistogramOver(data, back) (+) ForecastHistogramOver(fc, ahead)

\* controller.rs:125-132: history over the lookback plus forecast over the
\* lookahead, plus the current rate
WorkingHistogram(data, fc, rate, ahead, back) ==
    Record(HistoryHistogramOver(data, back) (+) ForecastHistogramOver(fc, ahead),
           ToGrams(rate))

\* a slip in controller.rs:135: < for <=
DecisionStrict(h, q, rate) ==
    LET emissions_limit == ValueAtQuantile(h, q)
    IN  [charge |-> ToGrams(rate) < emissions_limit, limit |-> emissions_limit]

\* controller.rs:134-135, 167: (can_charge, emissions_limit as i64); the
\* limits of the model are far below 2^63, where the cast changes nothing
Decision(h, q, rate) ==
    LET emissions_limit == ValueAtQuantile(h, q)
    IN  [charge |-> ToGrams(rate) <= emissions_limit, limit |-> emissions_limit]

\* the inputs of the calls
Socs == {10, 66, 85}

Rates == {1, 4, 7}

SampleRates == {1, 7}

\* a forecast sample starts 1 h or 23 h after now, a history sample 1 h or
\* 25 h before now: a day and two days before the later forecast sample
ForecastOffsets == {1, 23}

HistoryOffsets == {-1, -25}

Forecasts(t) ==
    LET samples == { Moer(t + o, r) : o \in ForecastOffsets, r \in SampleRates }
    IN  { f \in UNION { [1..n -> samples] : n \in 0..MaxForecast } :
            \A i, j \in DOMAIN f : i # j => f[i].start # f[j].start }

Histories(t) ==
    LET starts == { t + o : o \in HistoryOffsets }
    IN  UNION { [S -> SampleRates] :
                  S \in { T \in SUBSET starts : Cardinality(T) <= MaxHistory } }

Init ==
    /\ policy \in Policies
    /\ now \in Nows
    /\ soc \in Socs
    /\ history \in Histories(now)
    /\ current \in Rates
    /\ forecast \in Forecasts(now)
    /\ pc = "check_allowed"
    /\ goals = <<>>
    /\ goal = None
    /\ required = None
    /\ lookahead = <<>>
    /\ lookback = <<>>
    /\ emissions = EmptyHistogram
    /\ result = None
    /\ range = Unused /\ it = Unused /\ ipc = Unused /\ out = Unused
    /\ val = Unused /\ loop = Unused /\ sim = Unused /\ zone = Unused
    /\ waker = Unused

inputVars == <<policy, now, soc, history, current, forecast>>

\* controller.rs:50-53
CheckAllowed ==
    /\ pc = "check_allowed"
    /\ IF OutsideAllowedTimes(policy, now)
       THEN /\ result' = Some([charge |-> FALSE, limit |-> Sentinel])
            /\ pc' = "returned"
       ELSE /\ pc' = "check_soc"
            /\ UNCHANGED result
    /\ UNCHANGED <<goals, goal, required, lookahead, lookback, emissions>>
    /\ UNCHANGED inputVars
    /\ UNCHANGED intervalVars
    /\ UNCHANGED auxVars

\* controller.rs:55-58
CheckSoc ==
    /\ pc = "check_soc"
    /\ IF AboveMaxCharge(policy, soc)
       THEN /\ result' = Some([charge |-> FALSE, limit |-> Sentinel])
            /\ pc' = "returned"
       ELSE /\ pc' = "select_goal"
            /\ UNCHANGED result
    /\ UNCHANGED <<goals, goal, required, lookahead, lookback, emissions>>
    /\ UNCHANGED inputVars
    /\ UNCHANGED intervalVars
    /\ UNCHANGED auxVars

\* controller.rs:60-105: the candidates, the two filters, the sort, the pop
\* and the selected goal's required proportion
SelectGoal ==
    /\ pc = "select_goal"
    /\ LET gs == FilteredGoals(policy, now, soc)
       IN  IF SortPanics(policy, now, soc, gs)
           THEN /\ pc' = "panic_unwrap"
                /\ UNCHANGED <<goals, goal, required>>
           ELSE LET sorted == SortByRequired(policy, now, soc, gs)
                IN  IF sorted = <<>>
                    THEN /\ pc' = "panic_no_goal"
                         /\ UNCHANGED <<goals, goal, required>>
                    ELSE /\ goal' = Some(sorted[Len(sorted)])
                         /\ goals' = SubSeq(sorted, 1, Len(sorted) - 1)
                         /\ required' = Some(RequiredChargingProportion(
                                            policy, sorted[Len(sorted)], now, soc))
                         /\ pc' = "lookahead"
    /\ UNCHANGED <<lookahead, lookback, emissions, result>>
    /\ UNCHANGED inputVars
    /\ UNCHANGED intervalVars
    /\ UNCHANGED auxVars

\* controller.rs:107-123
BuildLookahead ==
    /\ pc = "lookahead"
    /\ lookahead' = AllowedTimesDuring(policy, Interval(now, goal[1].time))
    /\ lookback' = Lookback(lookahead')
    /\ pc' = "histogram"
    /\ UNCHANGED <<goals, goal, required, emissions, result>>
    /\ UNCHANGED inputVars
    /\ UNCHANGED intervalVars
    /\ UNCHANGED auxVars

\* controller.rs:125-132
BuildHistogram ==
    /\ pc = "histogram"
    /\ emissions' = WorkingHistogram(history, forecast, current, lookahead, lookback)
    /\ pc' = "quantile"
    /\ UNCHANGED <<goals, goal, required, lookahead, lookback, result>>
    /\ UNCHANGED inputVars
    /\ UNCHANGED intervalVars
    /\ UNCHANGED auxVars

\* controller.rs:134-167
Decide ==
    /\ pc = "quantile"
    /\ result' = Some(Decision(emissions, required[1], current))
    /\ pc' = "returned"
    /\ UNCHANGED <<goals, goal, required, lookahead, lookback, emissions>>
    /\ UNCHANGED inputVars
    /\ UNCHANGED intervalVars
    /\ UNCHANGED auxVars

Next ==
    \/ CheckAllowed
    \/ CheckSoc
    \/ SelectGoal
    \/ BuildLookahead
    \/ BuildHistogram
    \/ Decide

Spec == Init /\ [][Next]_vars

-----------------------------------------------------------------------------
(* Properties of can_charge *)

Returned == pc = "returned"

\* the call went past both early exits and selected a goal
Selected == goal # None

One == Quot(1, 1)

\* Claim C1: if allowed_at(now) is false, can_charge returns charge = false
\* with the sentinel limit -1, and neither selects a goal nor builds a
\* histogram, whatever the policy, soc, history, current rate and forecast.
C1_DisallowedReturnsSentinel ==
    ~AllowedAt(policy, now)
        => /\ pc \in {"check_allowed", "returned"}
           /\ goal = None
           /\ emissions = EmptyHistogram
           /\ Returned => result = Some([charge |-> FALSE, limit |-> Sentinel])

\* returned outside the allowed windows, with a soc below the maximum and a
\* current rate below every forecast and history sample
C1_Witness ==
    /\ Returned
    /\ ~AllowedAt(policy, now)
    /\ soc < policy.max_charge
    /\ Len(forecast) > 0 /\ DOMAIN history # {}
    /\ \A i \in DOMAIN forecast : current < forecast[i].rate
    /\ \A t \in DOMAIN history : current < history[t]

\* Claim C2: if soc >= max_charge, can_charge returns charge = false whatever
\* the emissions values are.
C2_FullNeverCharges ==
    soc >= policy.max_charge
        => /\ pc \in {"check_allowed", "check_soc", "returned"}
           /\ Returned => result[1].charge = FALSE

\* returned inside an allowed window at soc = max_charge, the current rate
\* below every sample, and an active candidate goal with no available hours
C2_Witness ==
    /\ Returned
    /\ AllowedAt(policy, now)
    /\ soc >= policy.max_charge
    /\ Len(forecast) > 0 /\ DOMAIN history # {}
    /\ \A i \in DOMAIN forecast : current < forecast[i].rate
    /\ \A t \in DOMAIN history : current < history[t]
    /\ \E i \in DOMAIN CandidateGoals(policy, now) :
          LET g == CandidateGoals(policy, now)[i]
          IN  IsActive(g, now) /\ AvailableChargingHours(policy, g, now) = 0

\* Claim C3: inside an allowed window with soc < max_charge, when the selected
\* goal's required fraction is >= 1.0 (+infinity included), can_charge
\* returns charge = true for every history, forecast and current rate.
C3_MustChargeCharges ==
    (Selected /\ FGreaterEq(required[1], One))
        => /\ pc \in {"lookahead", "histogram", "quantile", "returned"}
           /\ Returned => result[1].charge = TRUE

\* returned with a finite required fraction >= 1 and a current rate above
\* another sample of the working histogram
C3_Witness ==
    /\ Returned /\ Selected
    /\ IsFinite(required[1]) /\ FGreaterEq(required[1], One)
    /\ \E v \in BagToSet(emissions) : v < ToGrams(current)

\* clamp(req, 0.0, 1.0) of a required fraction that is not NaN
Clamp01(q) ==
    IF IsNegInf(q) \/ q.num < 0 THEN Quot(0, 1)
    ELSE IF IsPosInf(q) \/ q.num > q.den THEN One
    ELSE q

\* the histogram's value at quantile q in [0, 1]: the smallest recorded value
\* whose cumulative count is >= q * total count
QuantileValue(h, q) ==
    CHOOSE v \in BagToSet(h) :
        /\ CountUpTo(h, v) * q.den >= q.num * TotalCount(h)
        /\ \A w \in BagToSet(h) :
              CountUpTo(h, w) * q.den >= q.num * TotalCount(h) => v <= w

\* Claim C4: when neither early exit applies, can_charge returns
\* (current_rate <= emissions_limit, emissions_limit), emissions_limit being
\* the working histogram's value at quantile clamp(req, 0, 1).
C4_DecisionIsQuantileRule ==
    (Returned /\ Selected)
        => /\ result[1].limit = QuantileValue(emissions, Clamp01(required[1]))
           /\ result[1].charge = (ToGrams(current) <= result[1].limit)

\* returned with 0 < req < 1 over a histogram of three samples whose quantile
\* is neither its least nor its greatest value count
C4_Witness ==
    /\ Returned /\ Selected
    /\ IsFinite(required[1]) /\ FLess(required[1], One)
    /\ TotalCount(emissions) >= 3
    /\ result[1].charge = FALSE
    /\ CountAtQuantile(required[1], TotalCount(emissions)) > 1

\* the active goals: the candidates whose time is after now
ActiveGoals(P, t) ==
    LET Keep(g) == IsActive(g, t) IN SelectSeq(CandidateGoals(P, t), Keep)

\* Claim C5: the selected goal's required fraction is >= that of every
\* active goal, the active goals with charge <= soc included.
C5_SelectedIsLargest ==
    Selected
        => \A i \in DOMAIN ActiveGoals(policy, now) :
              FGreaterEq(required[1],
                         RequiredChargingProportion(
                             policy, ActiveGoals(policy, now)[i], now, soc))

\* Claim C6: for a validated policy, now inside an allowed window and
\* soc < max_charge, the flex goal is active and the filtered goal list is
\* non-empty: can_charge never aborts with 'must have at least one goal'.
C6_NeverWithoutGoal ==
    (/\ Validate(policy)
     /\ AllowedAt(policy, now)
     /\ soc < policy.max_charge
     /\ pc \notin {"check_allowed", "check_soc", "select_goal"})
        => /\ pc # "panic_no_goal"
           /\ IsActive(FlexGoal(policy, now), now)

\* Claim C10: when the quantile step is reached, the working histogram is
\* non-empty and holds the current rate as a sample, and its value at
\* quantile 1.0 is >= the current rate.
C10_HistogramHoldsCurrent ==
    (pc = "quantile" \/ (Returned /\ Selected))
        => /\ TotalCount(emissions) >= 1
           /\ CopiesIn(ToGrams(current), emissions) >= 1
           /\ ValueAtQuantile(emissions, One) >= ToGrams(current)

\* the quantile step reached with an empty history and an empty forecast
C10_Witness ==
    /\ pc = "quantile"
    /\ forecast = <<>>
    /\ DOMAIN history = {}

-----------------------------------------------------------------------------
(* A call of Charging::validate (config.rs:56-110), check by check *)

\* configurations as a file may hold them, valid or not
AllowedTimesInFile ==
    { <<>>, << <<0, 15>> >>, << <<5, 5>> >>, << <<2, 5>>, <<20, 23>> >>,
      << <<2, 5>>, <<5, 23>> >>, << <<20, 23>>, <<2, 5>> >> }

DailyGoalsInFile ==
    { <<>>, << <<8, 33>>, <<15, 66>> >>, << <<8, 33>>, <<15, 100>> >>,
      << <<8, -1>> >> }

ConfigsInFile ==
    [allowed_times : AllowedTimesInFile,
     charge_rate_kw : {0, DefaultCharging.charge_rate_kw},
     capacity_kwh : {0, DefaultCharging.capacity_kwh},
     max_charge : {-1, 0, DefaultCharging.max_charge, ChargeScale},
     flex_charge_hours : {-1, 0, DefaultCharging.flex_charge_hours,
                          FlexLimit - 1, FlexLimit},
     daily_goals : DailyGoalsInFile]

\* Result<Self, Error>
Ok(x) == [ok |-> TRUE, value |-> x]

Err(e) == [ok |-> FALSE, value |-> e]

\* (0.0..1.0).contains(&x), in hundredths
InUnitRange(x) == 0 <= x /\ x < ChargeScale

InitValidate ==
    /\ policy \in ConfigsInFile
    /\ val = [pc |-> "max_charge", result |-> None]
    /\ now = Unused /\ soc = Unused /\ history = Unused /\ current = Unused
    /\ forecast = Unused /\ pc = Unused /\ goals = Unused /\ goal = Unused
    /\ required = Unused /\ lookahead = Unused /\ lookback = Unused
    /\ emissions = Unused /\ result = Unused
    /\ range = Unused /\ it = Unused /\ ipc = Unused /\ out = Unused
    /\ loop = Unused /\ sim = Unused /\ zone = Unused
    /\ waker = Unused

validateFrame ==
    /\ UNCHANGED <<policy, loop, sim, zone, waker>>
    /\ UNCHANGED decideVars
    /\ UNCHANGED intervalVars

\* one check of validate: return the error when it fails, else go on
ValidateCheck(failed, error, next) ==
    IF failed
    THEN [pc |-> "returned", result |-> Some(Err(error))]
    ELSE [val EXCEPT !.pc = next]

\* config.rs:58-63
ValidateMaxCharge ==
    /\ val.pc = "max_charge"
    /\ val' = ValidateCheck(~InUnitRange(policy.max_charge),
                            "max_charge must be in range [0.0, 1.0)",
                            "flex_charge_hours")
    /\ validateFrame

\* config.rs:64-70
ValidateFlexChargeHours ==
    /\ val.pc = "flex_charge_hours"
    /\ val' = ValidateCheck(~(0 <= policy.flex_charge_hours
                               /\ policy.flex_charge_hours < FlexLimit),
                            "flex_charge_hours must be in range [0, 168)",
                            "daily_goals")
    /\ validateFrame

\* config.rs:71-78
ValidateDailyGoals ==
    /\ val.pc = "daily_goals"
    /\ val' = ValidateCheck(\E i \in DOMAIN policy.daily_goals :
                                ~InUnitRange(policy.daily_goals[i][2]),
                            "goal charge must be in range [0.0, 1.0)",
                            "non_empty")
    /\ validateFrame

\* config.rs:80-82
ValidateNonEmpty ==
    /\ val.pc = "non_empty"
    /\ val' = ValidateCheck(Len(policy.allowed_times) = 0,
                            "must specify at least one allowed charging time",
                            "pairs")
    /\ validateFrame

\* config.rs:84-92
ValidatePairs ==
    /\ val.pc = "pairs"
    /\ val' = ValidateCheck(\E i \in DOMAIN policy.allowed_times :
                                policy.allowed_times[i][1]
                                    >= policy.allowed_times[i][2],
                            "specified charging time with start >= end",
                            "sorted")
    /\ validateFrame

\* config.rs:94-108: the last check, then Ok(self)
ValidateSorted ==
    /\ val.pc = "sorted"
    /\ val' = [pc |-> "returned",
               result |->
                 IF \E i \in 1..(Len(policy.allowed_times) - 1) :
                       policy.allowed_times[i][2] >= policy.allowed_times[i + 1][1]
                 THEN Some(Err("charging times must be nonoverlapping and sorted"))
                 ELSE Some(Ok(policy))]
    /\ validateFrame

NextValidate ==
    \/ ValidateMaxCharge
    \/ ValidateFlexChargeHours
    \/ ValidateDailyGoals
    \/ ValidateNonEmpty
    \/ ValidatePairs
    \/ ValidateSorted

SpecValidate == InitValidate /\ [][NextValidate]_vars

\* the checks taken one by one accept exactly what Validate accepts
ValidateAgrees ==
    val.pc = "returned" => (val.result[1].ok <=> Validate(policy))

\* the data-model invariants of a policy
DataModelInvariants(P) ==
    /\ InUnitRange(P.max_charge)
    /\ 0 <= P.flex_charge_hours /\ P.flex_charge_hours < FlexLimit
    /\ \A i \in DOMAIN P.daily_goals : InUnitRange(P.daily_goals[i][2])
    /\ Len(P.allowed_times) > 0
    /\ \A i \in DOMAIN P.allowed_times :
          P.allowed_times[i][1] < P.allowed_times[i][2]
    /\ \A i, j \in DOMAIN P.allowed_times :
          i < j => P.allowed_times[i][2] < P.allowed_times[j][1]
    /\ P.capacity_kwh > 0
    /\ P.charge_rate_kw > 0

\* Claim C12: validate returns Ok, with the policy unchanged, if and only if
\* the policy satisfies every data-model invariant (max_charge in [0, 1),
\* flex_charge_hours in [0, 168), goal fractions in [0, 1), allowed_times
\* non-empty, start < end, strictly sorted and non-overlapping,
\* capacity_kwh > 0, charge_rate_kw > 0); otherwise it returns an error.
C12_ValidateIffInvariants ==
    val.pc = "returned"
        => /\ val.result[1].ok <=> DataModelInvariants(policy)
           /\ val.result[1].ok => val.result[1].value = policy

-----------------------------------------------------------------------------
(* can_charge as one call *)

\* controller.rs:42-168: Some(result), or None when the call panics
CanCharge(P, t, present_soc, data, rate, fc) ==
    IF OutsideAllowedTimes(P, t) \/ AboveMaxCharge(P, present_soc)
    THEN Some([charge |-> FALSE, limit |-> Sentinel])
    ELSE LET gs == FilteredGoals(P, t, present_soc)
         IN  IF SortPanics(P, t, present_soc, gs) \/ gs = <<>>
             THEN None
             ELSE LET sorted == SortByRequired(P, t, present_soc, gs)
                      g == sorted[Len(sorted)]
                      q == RequiredChargingProportion(P, g, t, present_soc)
                      ahead == AllowedTimesDuring(P, Interval(t, g.time))
                  IN  Some(Decision(WorkingHistogram(data, fc, rate, ahead,
                                                     Lookback(ahead)),
                                    q, rate))

\* the call computes what the steps of can_charge compute
CanChargeAgrees ==
    /\ pc = "returned"
          => result = CanCharge(policy, now, soc, history, current, forecast)
    /\ pc \in {"panic_unwrap", "panic_no_goal"}
          => CanCharge(policy, now, soc, history, current, forecast) = None

-----------------------------------------------------------------------------
(* The start command and the live control loop
   (main.rs:78-84, 111-147; controller.rs:171-253) *)

\* the period of the loop's ticks (300 s in controller.rs:179), in the time
\* unit of this model
TickPeriod == 1

\* the loop is followed from FirstNow for LoopSpan hours
LoopSpan == 4

LoopEnd == FirstNow + LoopSpan

\* the longest time one await of the loop may take
MaxDelay == 1

\* the files that load_config (main.rs:63-70) may read: the default policy,
\* a window of one hour a day, a policy without goals and without a flex
\* horizon, and a policy with max_charge = 1.0
LoopConfigs ==
    { DefaultCharging,
      [DefaultCharging EXCEPT !.allowed_times = << <<0, 1>> >>],
      [DefaultCharging EXCEPT !.flex_charge_hours = 0, !.daily_goals = <<>>],
      [DefaultCharging EXCEPT !.max_charge = ChargeScale] }

\* what the forecast request of the loop may return: no sample, or one sample
\* that starts an hour after the request
LoopForecasts(t) == { <<>> } \cup { <<Moer(t + 1, r)>> : r \in SampleRates }

\* what the history request of the loop may return: no sample, or one sample
\* that started an hour before the request
LoopHistories(t) == { <<>> } \cup { [x \in {t - 1} |-> r] : r \in SampleRates }

\* the locals of one iteration of the loop, before it has run
FreshTick ==
    [gate_now |-> None, allowed |-> None, was_charging |-> None,
     moer |-> None, fc |-> None, data |-> None, task |-> "none",
     state |-> None, decide_now |-> None, decision |-> None, cmds |-> <<>>,
     failure |-> None]

\* what the loop has dispatched so far, kept beside its locals: the most
\* recent command, and of the current run of consecutive iterations that
\* found charging disallowed its length, the stops dispatched in it (with the
\* place in the run and the response) and the most recent command before it
NoCommands ==
    [last |-> None, run_len |-> 0, run_stops |-> <<>>, before_run |-> None]

InitLoop ==
    /\ policy \in LoopConfigs
    /\ loop = [FreshTick EXCEPT !.task = "none"]
                @@ [pc |-> "main", clock |-> FirstNow, tick |-> 0,
                    is_charging |-> FALSE]
                @@ NoCommands
    /\ now = Unused /\ soc = Unused /\ history = Unused /\ current = Unused
    /\ forecast = Unused /\ pc = Unused /\ goals = Unused /\ goal = Unused
    /\ required = Unused /\ lookahead = Unused /\ lookback = Unused
    /\ emissions = Unused /\ result = Unused
    /\ range = Unused /\ it = Unused /\ ipc = Unused /\ out = Unused
    /\ val = Unused /\ sim = Unused /\ zone = Unused
    /\ waker = Unused

loopFrame ==
    /\ UNCHANGED <<policy, val, sim, zone, waker>>
    /\ UNCHANGED decideVars
    /\ UNCHANGED intervalVars

\* the time an await takes
Delays == { d \in 0..MaxDelay : loop.clock + d <= LoopEnd }

\* a slip: the error of an await is dropped and the loop goes on
QuestionMarkIgnored(ok, next) == next

\* the ? operator: on an error the function returns it
QuestionMark(ok, next) == IF ok THEN next ELSE "returned_err"

\* main.rs:82-83, 111-146: the logins and the vehicle list, then the loop;
\* the configuration is passed on as load_config read it
MainStart ==
    /\ loop.pc = "main"
    /\ \E ok \in BOOLEAN :
          loop' = [loop EXCEPT !.pc = QuestionMark(ok, "fetch_moer"),
                               !.failure = IF ok THEN None ELSE Some("login")]
    /\ loopFrame

\* controller.rs:188-189: a new iteration begins with the MOER request
FetchMoer ==
    /\ loop.pc = "fetch_moer"
    /\ \E ok \in BOOLEAN, r \in SampleRates, d \in Delays :
          loop' = [pc |-> QuestionMark(ok, "gate"),
                   clock |-> loop.clock + d,
                   tick |-> loop.tick + 1,
                   is_charging |-> loop.is_charging,
                   last |-> loop.last,
                   run_len |-> loop.run_len,
                   run_stops |-> loop.run_stops,
                   before_run |-> loop.before_run]
                  @@ [FreshTick EXCEPT
                        !.moer = IF ok THEN Some(r) ELSE None,
                        !.failure = IF ok THEN None ELSE Some("moer")]
    /\ loopFrame

\* controller.rs:191-200 and 237: allowed_at(Utc::now()); when allowed the
\* vehicle task is spawned
Gate ==
    /\ loop.pc = "gate"
    /\ LET allowed == AllowedAt(policy, loop.clock)
       IN  loop' = [loop EXCEPT
                      !.gate_now = Some(loop.clock),
                      !.allowed = Some(allowed),
                      !.was_charging = Some(loop.is_charging),
                      !.task = IF allowed THEN "waking" ELSE "none",
                      !.run_len = IF allowed THEN 0 ELSE @ + 1,
                      !.run_stops = IF allowed THEN <<>> ELSE @,
                      !.before_run = IF allowed THEN None
                                     ELSE IF loop.run_len = 0 THEN loop.last
                                     ELSE @,
                      !.pc = IF allowed THEN "fetch_forecast" ELSE "disallowed"]
    /\ loopFrame

Running == loop.pc \notin {"main", "returned_err", "panicked"}

\* controller.rs:196-200, vehicle.rs:71-106: the spawned task wakes the
\* vehicle; the wake may fail or time out
TaskWake ==
    /\ Running
    /\ loop.task = "waking"
    /\ \E outcome \in {"online", "timeout", "error"} :
          loop' = [loop EXCEPT
                     !.task = IF outcome = "online" THEN "reading" ELSE "failed",
                     !.failure = IF outcome = "online" THEN @
                                 ELSE Some("wake_" \o outcome)]
    /\ loopFrame

\* controller.rs:199, vehicle.rs:126-145: the task reads the charge state
TaskChargeState ==
    /\ Running
    /\ loop.task = "reading"
    /\ \E ok \in BOOLEAN, level \in Socs :
          loop' = [loop EXCEPT
                     !.task = IF ok THEN "done" ELSE "failed",
                     !.state = IF ok THEN Some(level) ELSE None,
                     !.failure = IF ok THEN @ ELSE Some("charge_state")]
    /\ loopFrame

\* controller.rs:202-203
FetchForecast ==
    /\ loop.pc = "fetch_forecast"
    /\ \E ok \in BOOLEAN, d \in Delays :
       \E f \in LoopForecasts(loop.clock + d) :
          loop' = [loop EXCEPT
                     !.pc = QuestionMark(ok, "fetch_history"),
                     !.clock = @ + d,
                     !.fc = IF ok THEN Some(f) ELSE None,
                     !.failure = IF ok THEN @ ELSE Some("forecast")]
    /\ loopFrame

\* controller.rs:205-214
FetchHistory ==
    /\ loop.pc = "fetch_history"
    /\ \E ok \in BOOLEAN, d \in Delays :
       \E h \in LoopHistories(loop.clock + d) :
          loop' = [loop EXCEPT
                     !.pc = QuestionMark(ok, "join"),
                     !.clock = @ + d,
                     !.data = IF ok THEN Some(h) ELSE None,
                     !.failure = IF ok THEN @ ELSE Some("history")]
    /\ loopFrame

\* controller.rs:217: charge_state.await??
Join ==
    /\ loop.pc = "join"
    /\ loop.task \in {"done", "failed"}
    /\ \E d \in Delays :
          loop' = [loop EXCEPT
                     !.pc = QuestionMark(loop.task = "done", "decide"),
                     !.clock = @ + d]
    /\ loopFrame

\* controller.rs:220-226: the call of can_charge with a new Utc::now()
CallCanCharge ==
    /\ loop.pc = "decide"
    /\ LET r == CanCharge(policy, loop.clock, loop.state[1], loop.data[1],
                          loop.moer[1], loop.fc[1])
       IN  loop' = [loop EXCEPT
                      !.decide_now = Some(loop.clock),
                      !.decision = r,
                      !.pc = IF r = None THEN "panicked" ELSE "command"]
    /\ loopFrame

\* a slip in controller.rs:223-236: the branches exchanged
CommandForExchanged(charge) == IF charge THEN "charge_stop" ELSE "charge_start"

\* controller.rs:223-236: the command of each branch
CommandFor(charge) == IF charge THEN "charge_start" ELSE "charge_stop"

\* a slip: a rejected command ends the loop
AfterCommandStrict(rsp) == IF rsp = "ok" THEN "sleep" ELSE "returned_err"

\* controller.rs:227-228, 232-233, 240-241: the response is logged, nothing
\* else
AfterCommand(rsp) == "sleep"

\* vehicle.rs:147-206: a command is accepted, rejected, or the request fails
Responses == {"ok", "rejected", "error"}

\* controller.rs:227-236
Command ==
    /\ loop.pc = "command"
    /\ \E rsp \in Responses, d \in Delays :
          loop' = [loop EXCEPT
                     !.cmds = Append(@, [cmd |-> CommandFor(loop.decision[1].charge),
                                         rsp |-> rsp]),
                     !.is_charging = loop.decision[1].charge,
                     !.last = Some(CommandFor(loop.decision[1].charge)),
                     !.clock = @ + d,
                     !.pc = AfterCommand(rsp)]
    /\ loopFrame

\* a slip in controller.rs:239: the stop is sent whatever the flag says
StopNeededAlways(flag) == TRUE

\* controller.rs:239: the stop is sent when the flag is set
StopNeeded(flag) == flag

\* a slip in controller.rs:242: the flag is cleared only when the vehicle
\* accepted the stop
FlagAfterStopIfAccepted(rsp) == rsp # "ok"

\* controller.rs:242: the flag is cleared whatever the response
FlagAfterStop(rsp) == FALSE

\* controller.rs:237-248
Disallowed ==
    /\ loop.pc = "disallowed"
    /\ IF StopNeeded(loop.is_charging)
       THEN \E rsp \in Responses, d \in Delays :
               loop' = [loop EXCEPT
                          !.cmds = Append(@, [cmd |-> "charge_stop", rsp |-> rsp]),
                          !.is_charging = FlagAfterStop(rsp),
                          !.last = Some("charge_stop"),
                          !.run_stops = Append(@, [at |-> loop.run_len,
                                                   rsp |-> rsp]),
                          !.clock = @ + d,
                          !.pc = AfterCommand(rsp)]
       ELSE loop' = [loop EXCEPT !.pc = "sleep"]
    /\ loopFrame

\* controller.rs:176-181
NextWindow(t) == t + (TickPeriod - (t % TickPeriod))

\* controller.rs:250-251: sleep until the next window; the two readings of
\* the clock in these lines are taken as one
Sleep ==
    /\ loop.pc = "sleep"
    /\ NextWindow(loop.clock) <= LoopEnd
    /\ loop' = [loop EXCEPT !.pc = "fetch_moer",
                            !.clock = NextWindow(loop.clock)]
    /\ loopFrame

NextLoop ==
    \/ MainStart
    \/ FetchMoer
    \/ Gate
    \/ TaskWake
    \/ TaskChargeState
    \/ FetchForecast
    \/ FetchHistory
    \/ Join
    \/ CallCanCharge
    \/ Command
    \/ Disallowed
    \/ Sleep

SpecLoop == InitLoop /\ [][NextLoop]_vars

TypeLoop ==
    /\ loop.pc \in {"main", "fetch_moer", "gate", "fetch_forecast",
                    "fetch_history", "join", "decide", "command",
                    "disallowed", "sleep", "returned_err", "panicked"}
    /\ loop.clock \in FirstNow..LoopEnd
    /\ loop.is_charging \in BOOLEAN
    /\ Len(loop.cmds) <= 1

\* Claim C11: the live control loop started by the start command never
\* executes a tick with a policy that validate() would reject: an invalid
\* configuration is rejected at startup.
C11_TicksOnlyWithValidPolicy ==
    loop.tick > 0 => Validate(policy)

\* Claim C13: in a tick in which charging is allowed and every fetch
\* succeeds, exactly one vehicle command is dispatched after can_charge
\* returns, and none before: charge_start if it returned true, charge_stop
\* otherwise.
C13_OneCommandPerAllowedTick ==
    loop.allowed = Some(TRUE)
        => /\ loop.decision = None => loop.cmds = <<>>
           /\ loop.pc = "sleep"
                 => /\ loop.decision # None
                    /\ Len(loop.cmds) = 1
                    /\ loop.cmds[1].cmd = IF loop.decision[1].charge
                                          THEN "charge_start"
                                          ELSE "charge_stop"

C13_Witness ==
    /\ loop.pc = "sleep"
    /\ loop.allowed = Some(TRUE)
    /\ loop.decision # None /\ loop.decision[1].charge
    /\ loop.cmds[1].cmd = "charge_start"

AfterFailure(l) ==
    /\ l.failure # None
          => /\ l.cmds = <<>>
             /\ l.decision = None
             /\ l.failure[1] \in {"login", "moer", "forecast", "history"}
                   => l.pc = "returned_err"
             /\ l.pc \in {"fetch_forecast", "fetch_history", "join",
                          "returned_err"}
    /\ l.pc = "returned_err" => l.failure # None
    /\ l.pc = "decide" => l.failure = None

\* Claim C16: if the MOER fetch, the forecast fetch, the history fetch, the
\* wake (its timeout included) or the charge-state read fails in a tick,
\* that tick dispatches no command, the loop returns the error, and no later
\* tick runs.
C16_FailureEndsLoop ==
    [][/\ AfterFailure(loop')
       /\ loop.pc = "returned_err" => loop' = loop]_vars

C16_Witness ==
    /\ loop.pc = "returned_err"
    /\ loop.failure = Some("wake_timeout")
    /\ loop.tick = 2

-----------------------------------------------------------------------------
(* The goals that share the largest required proportion *)

\* the goals collected by the call
Collected == FilteredGoals(policy, now, soc)

\* the places, in the collected list, of the goals whose required proportion
\* is the largest
TopGoals ==
    LET req == [i \in DOMAIN Collected |->
                  RequiredChargingProportion(policy, Collected[i], now, soc)]
    IN  { i \in DOMAIN req : \A j \in DOMAIN req : FGreaterEq(req[i], req[j]) }

\* the goal has just been selected
JustSelected == pc = "lookahead"

\* The statement of claim C20 as written: among the goals that share the
\* largest required proportion the selected one has the earliest time, and
\* among equal times the largest charge.
C20_EarliestOfTies ==
    JustSelected
        => \A i \in TopGoals :
              LET g == Collected[i]
              IN  \/ goal[1].time < g.time
                  \/ goal[1].time = g.time /\ goal[1].charge >= g.charge

\* Claim C20: when several active goals share the largest required
\* proportion, the selected goal is the one of them that comes last in the
\* order in which the candidates are collected (the flex goal, today's daily
\* goals in configuration order, tomorrow's daily goals in configuration
\* order).
C20_LastOfTies ==
    JustSelected
        => LET top == TopGoals
           IN  /\ top # {}
               /\ goal[1] = Collected[CHOOSE i \in top : \A j \in top : j <= i]

C20_Witness ==
    /\ JustSelected
    /\ Cardinality(TopGoals) >= 2
    /\ \E i \in TopGoals : Collected[i].time < goal[1].time

-----------------------------------------------------------------------------
(* can_charge for every policy that validate accepts *)

\* policies that validate accepts and whose vehicle fields, which validate
\* does not look at, may be zero
WidePolicies ==
    { P \in [allowed_times : AllowedTimesChoices,
             charge_rate_kw : {0, DefaultCharging.charge_rate_kw},
             capacity_kwh : {0, DefaultCharging.capacity_kwh},
             max_charge : {DefaultCharging.max_charge},
             flex_charge_hours : {DefaultCharging.flex_charge_hours},
             daily_goals : DailyGoalsChoices] : Validate(P) }

InitWide ==
    /\ policy \in WidePolicies
    /\ now \in Nows
    /\ soc \in Socs
    /\ history \in Histories(now)
    /\ current \in SampleRates
    /\ forecast = <<>>
    /\ pc = "check_allowed"
    /\ goals = <<>>
    /\ goal = None
    /\ required = None
    /\ lookahead = <<>>
    /\ lookback = <<>>
    /\ emissions = EmptyHistogram
    /\ result = None
    /\ range = Unused /\ it = Unused /\ ipc = Unused /\ out = Unused
    /\ val = Unused /\ loop = Unused /\ sim = Unused /\ zone = Unused
    /\ waker = Unused

SpecWide == InitWide /\ [][Next]_vars

\* Claim C19: for every validated policy and every now and soc that reach
\* goal selection, no collected goal's required proportion is NaN, so the
\* comparison of the sort is total and the sort never aborts.
C19_NoNaNInSort ==
    /\ pc = "select_goal"
          => \A i \in DOMAIN Collected :
                ~IsNaN(RequiredChargingProportion(policy, Collected[i], now, soc))
    /\ pc # "panic_unwrap"

-----------------------------------------------------------------------------
(* The backtest simulator (simulator.rs, histogram.rs) *)

\* the step of a simulation (5 minutes in simulator.rs:77), in the time unit
\* of this model
SimStep == 1

\* histogram.rs:10-52: the allowed windows of today and tomorrow, cut to
\* now .. the next target time
ChargingTimes(t, C) ==
    LET today == LocalDate(t)
        tomorrow == Succ(today)
        windows == [i \in 1..(2 * Len(C.allowed_times)) |->
                     LET k == IF i <= Len(C.allowed_times) THEN i
                              ELSE i - Len(C.allowed_times)
                         day == IF i <= Len(C.allowed_times) THEN today
                                ELSE tomorrow
                     IN  Interval(AndTime(day, C.allowed_times[k][1]),
                                  AndTime(day, C.allowed_times[k][2]))]
        target_time == IF LocalTime(t) < C.target_time
                       THEN AndTime(today, C.target_time)
                       ELSE AndTime(tomorrow, C.target_time)
        Kept(w) == ~(w.start > target_time \/ t > w.end)
        kept == SelectSeq(windows, Kept)
    IN  [i \in DOMAIN kept |->
            Interval(Max(t, kept[i].start), Min(target_time, kept[i].end))]

\* histogram.rs:57-77
EmissionsOverChargeWindow(fc, t, C) ==
    RecordAll(EmptyHistogram, fc, ChargingTimes(t, C))

\* the configurations of a simulation: a policy with the target time and the
\* target charge that simulator.rs and histogram.rs read
SimConfigs ==
    { [allowed_times |-> a,
       flex_charge_hours |-> DefaultCharging.flex_charge_hours,
       target_time |-> tt,
       target_charge |-> DefaultCharging.max_charge] :
         a \in AllowedTimesChoices, tt \in {1, 8, 15} }

\* config::Vehicle as simulator.rs:135-136 reads it: a charge of one step
\* adds 0.10 or 0.50
SimVehicles ==
    { [charge_rate |-> DefaultCharging.charge_rate_kw, capacity |-> 80],
      [charge_rate |-> DefaultCharging.charge_rate_kw, capacity |-> 16] }

\* main.rs:160-161: a simulation starts at a local midnight
SimStarts == { t \in FirstNow..(FirstNow + HoursPerDay - 1) : LocalTime(t) = 0 }

\* simulator.rs:40-43
InitialSocs == <<10, 30, 50, 70>>

\* simulator.rs:37-49: the first record
FirstRecord(start) ==
    [time |-> start, soc |-> InitialSocs, emissions |-> 0,
     limit |-> <<0, 0, 0, 0>>]

\* Simulator::new; of the records only the last two and their number are
\* kept, run reads only the last
InitSim ==
    /\ policy \in SimConfigs
    /\ \E v \in SimVehicles, start \in SimStarts :
          sim = [pc |-> "run", vehicle |-> v, start |-> start, now |-> start,
                 end |-> None, times |-> <<>>, last |-> FirstRecord(start),
                 prev |-> None, rows |-> 1]
    /\ now = Unused /\ soc = Unused /\ history = Unused /\ current = Unused
    /\ forecast = Unused /\ pc = Unused /\ goals = Unused /\ goal = Unused
    /\ required = Unused /\ lookahead = Unused /\ lookback = Unused
    /\ emissions = Unused /\ result = Unused
    /\ range = Unused /\ it = Unused /\ ipc = Unused /\ out = Unused
    /\ val = Unused /\ loop = Unused /\ zone = Unused
    /\ waker = Unused

simFrame ==
    /\ UNCHANGED <<policy, val, loop, zone, waker>>
    /\ UNCHANGED decideVars
    /\ UNCHANGED intervalVars

\* simulator.rs:58-77: the login, the charging times of the start and their
\* end; no charging time at all fails the expect of line 71
SimRunStart ==
    /\ sim.pc = "run"
    /\ \E ok \in BOOLEAN :
          LET times == ChargingTimes(sim.now, policy)
          IN  sim' = IF ~ok THEN [sim EXCEPT !.pc = "returned_err"]
                     ELSE IF times = <<>> THEN [sim EXCEPT !.pc = "panicked"]
                     ELSE [sim EXCEPT !.pc = "loop", !.times = times,
                                      !.end = Some(times[Len(times)].end)]
    /\ simFrame

\* simulator.rs:74-75
SimCanCharge(t) == InAny(sim.times, t)

\* simulator.rs:78-83: the loop's test, the step, and the continue of a time
\* at which charging is not allowed
SimAdvance ==
    /\ sim.pc = "loop"
    /\ sim.now <= sim.end[1]
    /\ sim' = [sim EXCEPT !.now = @ + SimStep,
                          !.pc = IF SimCanCharge(sim.now + SimStep)
                                 THEN "record" ELSE "loop"]
    /\ simFrame

\* simulator.rs:78, 158: the loop ends, run returns Ok
SimFinish ==
    /\ sim.pc = "loop"
    /\ sim.now > sim.end[1]
    /\ sim' = [sim EXCEPT !.pc = "returned_ok"]
    /\ simFrame

\* simulator.rs:108-111: 1.0 - soc * target_charge
SimQuantile(s, target) ==
    Quot(ChargeScale * ChargeScale - s * target, ChargeScale * ChargeScale)

\* simulator.rs:113-116
SimChargeNow(e, limit, s, target) == e < limit /\ s < target

\* simulator.rs:135-136: charge_rate * (5 / 60) / capacity, in hundredths
DeltaPct(v) == (ChargeScale * v.charge_rate * SimStep) \div v.capacity

\* simulator.rs:101-155: the record of a time at which charging is allowed
NextRecord(fc, rate) ==
    LET e == ToGrams(rate)
        emissions_rates == EmissionsOverChargeWindow(fc, sim.now, policy)
        limits == [k \in 1..4 |->
                     ValueAtQuantile(emissions_rates,
                                     SimQuantile(sim.last.soc[k],
                                                 policy.target_charge))]
    IN  [time |-> sim.now,
         soc |-> [k \in 1..4 |->
                    sim.last.soc[k]
                      + (IF SimChargeNow(e, limits[k], sim.last.soc[k],
                                         policy.target_charge)
                         THEN DeltaPct(sim.vehicle) ELSE 0)],
         emissions |-> e,
         limit |-> limits]

\* simulator.rs:87-155: the two fetches, either of which may fail, and the
\* new record
SimRecord ==
    /\ sim.pc = "record"
    /\ \E ok \in BOOLEAN, rate \in SampleRates :
       \E fc \in Forecasts(sim.now) :
          sim' = IF ~ok THEN [sim EXCEPT !.pc = "returned_err"]
                 ELSE [sim EXCEPT !.pc = "loop",
                                  !.prev = Some(sim.last),
                                  !.last = NextRecord(fc, rate),
                                  !.rows = @ + 1]
    /\ simFrame

NextSim ==
    \/ SimRunStart
    \/ SimAdvance
    \/ SimFinish
    \/ SimRecord

SpecSim == InitSim /\ [][NextSim]_vars

\* Claim C17: each of the four simulated states of charge (0.10, 0.30, 0.50,
\* 0.70 at the start) is non-decreasing from one recorded row to the next
\* and is at most 1.0 in every recorded row.
C17_SocsMonotoneAndBounded ==
    /\ \A k \in 1..4 : sim.last.soc[k] <= ChargeScale
    /\ sim.prev # None
          => \A k \in 1..4 : sim.prev[1].soc[k] <= sim.last.soc[k]

\* the number of steps from the start through start + flex_charge_hours
TicksOfRun == policy.flex_charge_hours \div SimStep

\* Claim C18: a backtest records exactly one row per tick from start through
\* start + flex_charge_hours, consecutive rows one step apart, the ticks at
\* which charging is not allowed included.
C18_OneRowPerTick ==
    /\ sim.prev # None => sim.last.time = sim.prev[1].time + SimStep
    /\ sim.pc = "loop" => sim.last.time = sim.now
    /\ sim.pc = "returned_ok"
          => /\ sim.rows = TicksOfRun + 1
             /\ sim.last.time = sim.start + policy.flex_charge_hours

-----------------------------------------------------------------------------
(* can_charge on the example policy with a forecast of two samples *)

\* the soc of the example and a lower one
ExampleSocs == {10, 50}

\* two forecast samples of rates 0.1 and 0.5 (1 and 7 here) that start one
\* to three hours after now
ExampleForecasts(t) ==
    { <<Moer(t + p[1], 1), Moer(t + p[2], 7)>> :
        p \in { q \in (1..3) \X (1..3) : q[1] # q[2] } }

InitExample ==
    /\ policy = DefaultCharging
    /\ now \in Nows
    /\ soc \in ExampleSocs
    /\ history = <<>>
    /\ current \in Rates
    /\ forecast \in ExampleForecasts(now)
    /\ pc = "check_allowed"
    /\ goals = <<>>
    /\ goal = None
    /\ required = None
    /\ lookahead = <<>>
    /\ lookback = <<>>
    /\ emissions = EmptyHistogram
    /\ result = None
    /\ range = Unused /\ it = Unused /\ ipc = Unused /\ out = Unused
    /\ val = Unused /\ loop = Unused /\ sim = Unused /\ zone = Unused
    /\ waker = Unused

SpecExample == InitExample /\ [][Next]_vars

\* the example: 01:00 Pacific, soc 0.50, current rate 0.3 (4 here), the two
\* forecast samples one and two hours ahead
ExampleScenario ==
    /\ LocalTime(now) = 1
    /\ soc = 50
    /\ current = 4
    /\ forecast = <<Moer(now + 1, 1), Moer(now + 2, 7)>>

\* Claim C21: with the example policy, can_charge at 01:00 Pacific with soc
\* 0.50, an empty history, two forecast samples of rates 0.1 and 0.5 ahead
\* and the current rate 0.3 returns charge = false.
C21_ExampleDoesNotCharge ==
    (Returned /\ ExampleScenario) => ~result[1].charge

-----------------------------------------------------------------------------
(* can_charge with a lookahead of two days *)

\* the policies with the flex horizon of 40 h: the lookahead of the flex goal
\* reaches the windows of two dates
TwoDayPolicies == { P \in Policies : P.flex_charge_hours = 40 }

\* histories of samples that started 1 h, 20 h or 25 h before now
TwoDayHistories(t) ==
    UNION { [S -> SampleRates] : S \in SUBSET {t - 1, t - 20, t - 25} }

\* forecasts of no sample or of one sample
TwoDayForecasts(t) ==
    { <<>> } \cup { <<Moer(t + o, r)>> : o \in ForecastOffsets, r \in SampleRates }

InitTwoDays ==
    /\ policy \in TwoDayPolicies
    /\ now \in Nows
    /\ soc \in Socs
    /\ history \in TwoDayHistories(now)
    /\ current \in SampleRates
    /\ forecast \in TwoDayForecasts(now)
    /\ pc = "check_allowed"
    /\ goals = <<>>
    /\ goal = None
    /\ required = None
    /\ lookahead = <<>>
    /\ lookback = <<>>
    /\ emissions = EmptyHistogram
    /\ result = None
    /\ range = Unused /\ it = Unused /\ ipc = Unused /\ out = Unused
    /\ val = Unused /\ loop = Unused /\ sim = Unused /\ zone = Unused
    /\ waker = Unused

SpecTwoDays == InitTwoDays /\ [][Next]_vars

\* the intervals of allowed_times_during(now..goal.time) for the selected goal
LookaheadOfGoal == AllowedTimesDuring(policy, Interval(now, goal[1].time))

\* t lies in some lookahead interval [s, e) moved back by shift
InShifted(t, shift) ==
    \E k \in DOMAIN LookaheadOfGoal :
        /\ LookaheadOfGoal[k].start - shift <= t
        /\ t < LookaheadOfGoal[k].end - shift

\* the forecast samples of v grams that start in a lookahead interval
ForecastCounted(v) ==
    { i \in DOMAIN forecast :
        ToGrams(forecast[i].rate) = v /\ InShifted(forecast[i].start, 0) }

\* the history samples of v grams that start in a lookahead interval moved
\* back by one day or by two days
HistoryCounted(v) ==
    { s \in DOMAIN history :
        /\ ToGrams(history[s]) = v
        /\ InShifted(s, HoursPerDay) \/ InShifted(s, 2 * HoursPerDay) }

\* every value a sample of the call can have
SampleValues ==
    { ToGrams(current) } \cup { ToGrams(forecast[i].rate) : i \in DOMAIN forecast }
        \cup { ToGrams(history[s]) : s \in DOMAIN history }

\* Claim C22: the histogram can_charge builds holds exactly one count per
\* forecast sample whose start lies in a lookahead interval, one count per
\* history sample whose start lies in a lookahead interval moved back by one
\* day or by two days (one count also when it lies in both), and one count
\* for the current rate; nothing else is recorded.
C22_HistogramContents ==
    pc = "quantile"
        => /\ BagToSet(emissions) \subseteq SampleValues
           /\ \A v \in SampleValues :
                 CopiesIn(v, emissions)
                    = Cardinality(ForecastCounted(v))
                        + Cardinality(HistoryCounted(v))
                        + (IF v = ToGrams(current) THEN 1 ELSE 0)

\* a history sample that lies in both moved sets, and a forecast sample, are
\* in the histogram
C22_Witness ==
    /\ pc = "quantile"
    /\ \E s \in DOMAIN history :
          InShifted(s, HoursPerDay) /\ InShifted(s, 2 * HoursPerDay)
    /\ \E i \in DOMAIN forecast : InShifted(forecast[i].start, 0)

-----------------------------------------------------------------------------
(* The lengths of the emitted intervals *)

\* Claim C23: every interval allowed_times_during([a, b)) emits has
\* start < end, also when a window starts exactly at b, and the generation
\* stops at the first window whose start is >= b.
C23_NoEmptyInterval ==
    /\ \A i \in DOMAIN out : out[i].start < out[i].end
    /\ ipc = "finished"
          => LET stopped == FlatMapNext(policy, it)
             IN  /\ ChargingTime(policy, stopped.date, stopped.idx).start
                       >= range.end
                 /\ \A i \in DOMAIN out : out[i].start < range.end

-----------------------------------------------------------------------------
(* The local calendar with a daylight-saving transition (chrono_tz's
   US::Pacific): the conversions of a can_charge call near the transition *)

\* Pacific Standard Time and Pacific Daylight Time, as offsets from UTC
StandardOffset == PacificOffset

DaylightOffset == PacificOffset + 1

\* the wall-clock hour at which the clocks are changed
TransitionHour == 2

\* the local dates the clocks may be changed on (the nows of the model are
\* on the dates 0, 1 and 2)
TransitionDates == {1, 2}

\* "spring": at 02:00 standard time the clocks go to 03:00 daylight time;
\* "fall": at 02:00 daylight time they go back to 01:00 standard time
Transitions == [kind : {"spring", "fall"}, date : TransitionDates]

\* the UTC instant of the transition z
TransitionInstant(z) ==
    z.date * HoursPerDay + TransitionHour
        - (IF z.kind = "spring" THEN StandardOffset ELSE DaylightOffset)

\* the offset from UTC in force at the UTC instant t
ZoneOffsetAt(z, t) ==
    IF z.kind = "spring"
    THEN IF t < TransitionInstant(z) THEN StandardOffset ELSE DaylightOffset
    ELSE IF t < TransitionInstant(z) THEN DaylightOffset ELSE StandardOffset

\* DateTime<Utc>::with_timezone(&Pacific).date()
ZoneLocalDate(z, t) == (t + ZoneOffsetAt(z, t)) \div HoursPerDay

\* DateTime<Utc>::with_timezone(&Pacific).time()
ZoneLocalTime(z, t) == (t + ZoneOffsetAt(z, t)) % HoursPerDay

\* TimeZone::from_local_datetime: the instants whose local reading is the
\* given date and time (none in the hour the clocks skip, two in the hour
\* they repeat)
FromLocalDatetime(z, date, time) ==
    { u \in { date * HoursPerDay + time - off :
                  off \in {StandardOffset, DaylightOffset} } :
        /\ ZoneLocalDate(z, u) = date
        /\ ZoneLocalTime(z, u) = time }

\* Date<Tz>::and_time: LocalResult::single() of the conversion
ZoneAndTime(z, date, time) ==
    LET r == FromLocalDatetime(z, date, time)
    IN  IF Cardinality(r) = 1 THEN Some(CHOOSE u \in r : TRUE) ELSE None

\* Charging::allowed_at on this calendar
ZoneAllowedAt(P, z, t) ==
    \E i \in DOMAIN P.allowed_times :
        /\ P.allowed_times[i][1] <= ZoneLocalTime(z, t)
        /\ ZoneLocalTime(z, t) < P.allowed_times[i][2]

\* the two and_time calls of charging_times_for_day for the idx-th pair
ZoneBounds(P, z, date, idx) ==
    <<ZoneAndTime(z, date, P.allowed_times[idx][1]),
      ZoneAndTime(z, date, P.allowed_times[idx][2])>>

\* the and_time calls of today_goals and tomorrow_goals, in the order the
\* chain is collected
ZoneGoalTimes(P, z, t) ==
    LET today == ZoneLocalDate(z, t)
        On(date) == [i \in DOMAIN P.daily_goals |->
                        ZoneAndTime(z, date, P.daily_goals[i][1])]
    IN  On(today) \o On(Succ(today))

\* the candidate goals when every and_time call returned Some
ZoneCandidateGoals(P, z, t) ==
    LET times == ZoneGoalTimes(P, z, t)
        n == Len(P.daily_goals)
    IN  <<FlexGoal(P, t)>>
          \o [i \in 1..(2 * n) |->
                Goal(times[i][1],
                     P.daily_goals[IF i <= n THEN i ELSE i - n][2])]

ZoneAllowedTimes == AllowedTimesChoices \cup { << <<1, 6>> >> }

ZoneDailyGoals ==
    DailyGoalsChoices \cup { << <<1, 33>> >>, << <<2, 33>>, <<15, 66>> >> }

ZonePolicies ==
    { P \in [allowed_times : ZoneAllowedTimes,
             charge_rate_kw : {DefaultCharging.charge_rate_kw},
             capacity_kwh : {DefaultCharging.capacity_kwh},
             max_charge : {DefaultCharging.max_charge},
             flex_charge_hours : FlexChoices \ {0},
             daily_goals : ZoneDailyGoals] : Validate(P) }

ZoneSocs == {10, 50}

\* a can_charge call that has passed both early exits (controller.rs:50-58)
InitZone ==
    /\ policy \in ZonePolicies
    /\ zone \in Transitions
    /\ now \in Nows
    /\ soc \in ZoneSocs
    /\ ZoneAllowedAt(policy, zone, now)
    /\ soc < policy.max_charge
    /\ pc = "goals"
    /\ goals = <<>>
    /\ range = Unused /\ it = Unused /\ ipc = Unused /\ out = <<>>
    /\ history = Unused /\ current = Unused /\ forecast = Unused
    /\ goal = Unused /\ required = Unused /\ lookahead = Unused
    /\ lookback = Unused /\ emissions = Unused /\ result = Unused
    /\ val = Unused /\ loop = Unused /\ sim = Unused /\ waker = Unused

zoneFrame ==
    UNCHANGED <<policy, zone, now, soc, history, current, forecast, goal,
                required, lookahead, lookback, emissions, result, val, loop,
                sim, waker>>

\* controller.rs:62-91: every and_time call of the chain returns Some and the
\* goals are collected
ZoneCollectGoals ==
    /\ pc = "goals"
    /\ \A i \in DOMAIN ZoneGoalTimes(policy, zone, now) :
          ZoneGoalTimes(policy, zone, now)[i] # None
    /\ LET Keep(g) == IsActive(g, now) /\ IsUnmet(g, soc)
       IN  goals' = SelectSeq(ZoneCandidateGoals(policy, zone, now), Keep)
    /\ pc' = "collected"
    /\ UNCHANGED <<range, it, ipc, out>>
    /\ zoneFrame

\* controller.rs:66, 71: an and_time call of the chain returns None and
\* unwrap() panics
ZoneGoalsUnwrapPanics ==
    /\ pc = "goals"
    /\ \E i \in DOMAIN ZoneGoalTimes(policy, zone, now) :
          ZoneGoalTimes(policy, zone, now)[i] = None
    /\ pc' = "panicked"
    /\ UNCHANGED <<goals, range, it, ipc, out>>
    /\ zoneFrame

\* controller.rs:94-99 -> 23-29: the sort asks for a goal's available hours,
\* which calls allowed_times_during(now..goal.time)
ZoneAvailableHours ==
    /\ pc = "collected"
    /\ \E i \in DOMAIN goals :
          /\ range' = Interval(now, goals[i].time)
          /\ it' = [date |-> ZoneLocalDate(zone, now), front |-> FALSE,
                    idx |-> 0]
    /\ ipc' = "iterating"
    /\ pc' = "available"
    /\ out' = <<>>
    /\ UNCHANGED goals
    /\ zoneFrame

\* intervals.rs:47-56: both and_time calls return Some and the interval
\* meets the range
ZoneIterNext ==
    /\ pc = "available" /\ ipc = "iterating"
    /\ LET s2 == FlatMapNext(policy, it)
           b == ZoneBounds(policy, zone, s2.date, s2.idx)
       IN  /\ b[1] # None /\ b[2] # None
           /\ LET x == Intersect(Interval(b[1][1], b[2][1]), range)
              IN  /\ x # None
                  /\ out' = Append(out, x[1])
           /\ it' = s2
    /\ UNCHANGED <<pc, goals, range, ipc>>
    /\ zoneFrame

\* intervals.rs:56: the interval does not meet the range and map_while ends
\* the sequence
ZoneIterEnd ==
    /\ pc = "available" /\ ipc = "iterating"
    /\ LET s2 == FlatMapNext(policy, it)
           b == ZoneBounds(policy, zone, s2.date, s2.idx)
       IN  /\ b[1] # None /\ b[2] # None
           /\ Intersect(Interval(b[1][1], b[2][1]), range) = None
    /\ ipc' = "finished"
    /\ UNCHANGED <<pc, goals, range, it, out>>
    /\ zoneFrame

\* intervals.rs:49-50: an and_time call returns None and unwrap() panics
ZoneIterUnwrapPanics ==
    /\ pc = "available" /\ ipc = "iterating"
    /\ LET s2 == FlatMapNext(policy, it)
           b == ZoneBounds(policy, zone, s2.date, s2.idx)
       IN  b[1] = None \/ b[2] = None
    /\ ipc' = "panicked"
    /\ pc' = "panicked"
    /\ UNCHANGED <<goals, range, it, out>>
    /\ zoneFrame

NextZone ==
    \/ ZoneCollectGoals
    \/ ZoneGoalsUnwrapPanics
    \/ ZoneAvailableHours
    \/ ZoneIterNext
    \/ ZoneIterEnd
    \/ ZoneIterUnwrapPanics

SpecZone == InitZone /\ [][NextZone]_vars

\* without a transition in reach the conversion is the one of AndTime
ZoneAgreesAwayFromTransition ==
    \A d \in 0..3 : \A h \in 0..(HoursPerDay - 1) :
        (d + 1 < zone.date /\ zone.kind = "spring")
            => ZoneAndTime(zone, d, h) = Some(AndTime(d, h))

\* Claim C24: when the local time-of-day of an allowed-window bound or of a
\* daily goal does not exist or is ambiguous on some local date because of a
\* daylight-saving transition, allowed_times_during and decide do not abort.
C24_NoAbortAtTransition == pc # "panicked"

-----------------------------------------------------------------------------
(* The instants of one iteration of the loop *)

\* Claim C25: within one tick the same instant now is used for the
\* allowed_at gate and for the can_charge call, so a tick that passes the
\* gate never has can_charge return at its "outside allowed times" exit,
\* however long the wake and the fetches of the tick take.
C25_OneInstantPerTick ==
    (loop.allowed = Some(TRUE) /\ loop.decision # None)
        => /\ loop.decide_now = loop.gate_now
           /\ AllowedAt(policy, loop.decide_now[1])

-----------------------------------------------------------------------------
(* Vehicle::wake (tesla/vehicle.rs:71-106); the unit of time is a second *)

\* vehicle.rs:80: the first wait
FirstWait == 1

\* vehicle.rs:103: the timeout of the whole call
WakeTimeout == 60

\* a wake_up request is answered (or fails) at most this long after it is
\* sent, if the call lasts that long
MaxLatency == 5

\* the request takes no time, a second, or the longest time
Latencies == {0, 1, MaxLatency}

\* a slip in vehicle.rs:98: the wait is left as it is
WaitAfterConstant(wait) == wait

\* vehicle.rs:98: wait += wait
WaitAfter(wait) == wait + wait

\* what a wake_up request may come to: the vehicle reports online, reports
\* another state, or the request or its decoding fails
WakeAnswers == {"online", "asleep", "error"}

\* vehicle.rs:79-80, 103: the call has built the waker and starts the
\* timeout
InitWake ==
    /\ waker = [pc |-> "post", clock |-> 0, wait |-> FirstWait, posts |-> <<>>,
                answers |-> <<>>, sleeps |-> <<>>, arrives |-> 0, wakes |-> 0]
    /\ policy = Unused
    /\ now = Unused /\ soc = Unused /\ history = Unused /\ current = Unused
    /\ forecast = Unused /\ pc = Unused /\ goals = Unused /\ goal = Unused
    /\ required = Unused /\ lookahead = Unused /\ lookback = Unused
    /\ emissions = Unused /\ result = Unused
    /\ range = Unused /\ it = Unused /\ ipc = Unused /\ out = Unused
    /\ val = Unused /\ loop = Unused /\ sim = Unused /\ zone = Unused

wakeFrame ==
    /\ UNCHANGED <<policy, val, loop, sim, zone>>
    /\ UNCHANGED decideVars
    /\ UNCHANGED intervalVars

\* vehicle.rs:82-86: the wake_up request is sent; its answer is on its way
WakePost ==
    /\ waker.pc = "post"
    /\ \E d \in Latencies :
          waker' = [waker EXCEPT !.pc = "in_flight",
                                 !.posts = Append(@, waker.clock),
                                 !.arrives = waker.clock + d]
    /\ wakeFrame

\* vehicle.rs:86-93: the answer arrives before the timeout and reports the
\* vehicle online: the waker returns Ok, and so does wake (vehicle.rs:103-105)
WakeOnline ==
    /\ waker.pc = "in_flight"
    /\ waker.arrives <= WakeTimeout
    /\ waker' = [waker EXCEPT !.pc = "returned_ok",
                              !.clock = waker.arrives,
                              !.answers = Append(@, "online")]
    /\ wakeFrame

\* vehicle.rs:94-96: the answer reports another state and the waker sleeps
\* for the current wait
WakeAsleep ==
    /\ waker.pc = "in_flight"
    /\ waker.arrives <= WakeTimeout
    /\ waker' = [waker EXCEPT !.pc = "sleeping",
                              !.clock = waker.arrives,
                              !.answers = Append(@, "asleep"),
                              !.sleeps = Append(@, waker.wait),
                              !.wakes = waker.arrives + waker.wait]
    /\ wakeFrame

\* vehicle.rs:86, 88: the request or the decoding of its answer fails; the ?
\* returns the error from the waker and wake returns it (vehicle.rs:103)
WakeRequestFails ==
    /\ waker.pc = "in_flight"
    /\ waker.arrives <= WakeTimeout
    /\ waker' = [waker EXCEPT !.pc = "returned_err",
                              !.clock = waker.arrives,
                              !.answers = Append(@, "error")]
    /\ wakeFrame

\* vehicle.rs:96-98: the sleep ends before the timeout; exponential backoff
WakeSleepEnds ==
    /\ waker.pc = "sleeping"
    /\ waker.wakes <= WakeTimeout
    /\ waker' = [waker EXCEPT !.pc = "post",
                              !.clock = waker.wakes,
                              !.wait = WaitAfter(waker.wait)]
    /\ wakeFrame

\* vehicle.rs:103: the timeout elapses while the waker waits for an answer or
\* sleeps; the waker is dropped and wake returns the Elapsed error
WakeElapsed ==
    /\ \/ waker.pc = "in_flight" /\ waker.arrives > WakeTimeout
       \/ waker.pc = "sleeping" /\ waker.wakes > WakeTimeout
    /\ waker' = [waker EXCEPT !.pc = "returned_elapsed",
                              !.clock = WakeTimeout]
    /\ wakeFrame

NextWake ==
    \/ WakePost
    \/ WakeOnline
    \/ WakeAsleep
    \/ WakeRequestFails
    \/ WakeSleepEnds
    \/ WakeElapsed

SpecWake == InitWake /\ [][NextWake]_vars

RECURSIVE Pow2(_)
Pow2(n) == IF n = 0 THEN 1 ELSE 2 * Pow2(n - 1)

WakeReturned == waker.pc \in {"returned_ok", "returned_err", "returned_elapsed"}

\* the instant of the event the waker is waiting for
WakePending ==
    IF waker.pc = "in_flight" THEN waker.arrives
    ELSE IF waker.pc = "sleeping" THEN waker.wakes
    ELSE waker.clock

\* Claim C26: Vehicle::wake returns Ok only after a wake_up poll reports the
\* vehicle online; the waits between consecutive polls are 1 s, 2 s, 4 s, ...
\* (each double the previous); and if no poll reports online within 60 s of
\* the call, wake returns an error and issues no further poll.
C26_WakeBackoffAndTimeout ==
    /\ waker.pc = "returned_ok"
          => /\ waker.answers # <<>>
             /\ waker.answers[Len(waker.answers)] = "online"
    /\ \A i \in DOMAIN waker.sleeps : waker.sleeps[i] = FirstWait * Pow2(i - 1)
    /\ \A i \in DOMAIN waker.posts :
          /\ waker.posts[i] <= WakeTimeout
          /\ i > 1 => waker.posts[i] - waker.posts[i - 1] >= waker.sleeps[i - 1]
    /\ waker.clock <= WakeTimeout
    /\ waker.pc = "returned_elapsed"
          => /\ waker.clock = WakeTimeout
             /\ \A i \in DOMAIN waker.answers : waker.answers[i] # "online"
    /\ WakePending > WakeTimeout
          => /\ ENABLED WakeElapsed
             /\ ~ENABLED WakePost /\ ~ENABLED WakeOnline
             /\ ~ENABLED WakeAsleep /\ ~ENABLED WakeSleepEnds
    /\ WakeReturned => ~ENABLED NextWake

\* the timeout has elapsed after six polls and the waits 1, 2, 4, 8, 16, 32
C26_Witness ==
    /\ waker.pc = "returned_elapsed"
    /\ waker.sleeps = <<1, 2, 4, 8, 16, 32>>
    /\ Len(waker.posts) = 6

-----------------------------------------------------------------------------
(* The is_charging flag of the loop *)

\* Claim C27: is_charging is true exactly when the most recent command the
\* loop dispatched was charge_start, whether or not the vehicle accepted it;
\* hence in a maximal run of consecutive disallowed ticks at most one
\* charge_stop is dispatched, on the first tick of the run and only if the
\* preceding allowed tick dispatched charge_start; a rejected stop is not
\* retried, and no stop is dispatched if the loop starts inside the run.
C27_FlagFollowsLastCommand ==
    /\ loop.is_charging <=> loop.last = Some("charge_start")
    /\ Len(loop.run_stops) <= 1
    /\ \A i \in DOMAIN loop.run_stops :
          /\ loop.run_stops[i].at = 1
          /\ loop.before_run = Some("charge_start")
    /\ (loop.run_len > 0 /\ loop.before_run = None) => loop.last = None

\* the second tick of a run whose first tick dispatched a stop that the
\* vehicle rejected
C27_Witness ==
    /\ loop.pc = "sleep"
    /\ loop.run_len = 2
    /\ Len(loop.run_stops) = 1
    /\ loop.run_stops[1].rsp = "rejected"

-----------------------------------------------------------------------------
(* The selected goal *)

====
